---- MODULE Spec2Model ----
(***************************************************************************)
(* A model of big_data_pipeline.py: generate_large_data, analyze_big_data  *)
(* and the main block.                                                     *)
(*                                                                         *)
(* Numbers.  The global numpy generator is a deterministic function of its *)
(* state; it is modelled as a congruential generator over 0..Res-1 whose   *)
(* output u stands for the fraction u/Res of the unit interval.  Floats    *)
(* are exact rationals: PricePerUnit, ShippingCost, TotalAmount and the    *)
(* deduction are numerators over Res, the margin is a numerator over       *)
(* 10*Res, Profit is a numerator over 10*Res*Res.  Float rounding is not   *)
(* modelled.                                                               *)
(***************************************************************************)
EXTENDS Integers, Sequences, FiniteSets, TLC

\* ------------------------------------------------------------- bounds
\* Resolution of the generator: its outputs are 0..Res-1.
Res == 8
\* Largest record count a caller passes (the smallest is -1).
MaxSamples == 2
\* Calls of generate_large_data a caller makes when the module is imported
\* (it may then call analyze_big_data once).
MaxCalls == 2
\* The default record count of the script, scaled down from 5_000_000.
NUM_SAMPLES == 2

\* ---------------------------------------------------------- constants
DATA_FILENAME == "large_synthetic_data.csv"
ANALYSIS_REPORT_FILENAME == "analysis_report.txt"
SEED == 42
regions == <<"North", "South", "East", "West", "Central">>
product_categories ==
    <<"Electronics", "Clothing", "Home Goods", "Books", "Food", "Software", "Services">>
payment_methods == <<"Credit Card", "Debit Card", "PayPal", "Bank Transfer">>
\* start_date = datetime(2020, 1, 1)
start_date == <<2020, 1, 1>>
\* np.random.randint(0, 1095): the exclusive upper end of the day offset
DateWindow == 1095

Range(s) == {s[i] : i \in 1..Len(s)}

\* ------------------------------------------------ the numpy generator
\* np.random.seed(42): the state depends on the seed alone.
ReseedKeep(s) == s
Reseed(s) == SEED % Res

\* One step of the generator; its output is the new state.
Step(s) == (5 * s + 1) % Res

RECURSIVE Advance(_, _)
Advance(s, n) == IF n <= 0 THEN s ELSE Advance(Step(s), n - 1)

\* np.random.randint(lo, hi): an integer of [lo, hi).
RandInt(u, lo, hi) == lo + (u * (hi - lo)) \div Res

\* The values randint(lo, hi) can return.
RandIntValuesInclusive(lo, hi) == lo..hi
RandIntValues(lo, hi) == lo..(hi - 1)

\* np.random.uniform(lo, hi): a float of [lo, hi), as a numerator over Res
\* (lo and hi in the unit of the caller).
Uniform(u, lo, hi) == lo * Res + (hi - lo) * u

\* The values uniform(lo, hi) can return at this resolution.
UniformValues(lo, hi) == {Uniform(u, lo, hi) : u \in 0..(Res - 1)}

\* np.random.choice(list): a uniformly drawn element of the list.
ChoiceAny(list, u) == product_categories[1 + RandInt(u, 0, Len(product_categories))]
Choice(list, u) == list[1 + RandInt(u, 0, Len(list))]

\* ----------------------------------------------------------- dates
\* datetime + timedelta(days = n), as the datetime module computes it:
\* through the proleptic Gregorian ordinal.
IsLeap(y) == y % 4 = 0 /\ (y % 100 # 0 \/ y % 400 = 0)
DAYS_IN_MONTH == <<31, 28, 31, 30, 31, 30, 31, 31, 30, 31, 30, 31>>
DAYS_BEFORE_MONTH == <<0, 31, 59, 90, 120, 151, 181, 212, 243, 273, 304, 334>>
DaysInMonth(y, m) == IF m = 2 /\ IsLeap(y) THEN 29 ELSE DAYS_IN_MONTH[m]
DaysBeforeYear(y) ==
    (y - 1) * 365 + (y - 1) \div 4 - (y - 1) \div 100 + (y - 1) \div 400
DaysBeforeMonth(y, m) ==
    DAYS_BEFORE_MONTH[m] + (IF m > 2 /\ IsLeap(y) THEN 1 ELSE 0)
Ymd2Ord(date) ==
    DaysBeforeYear(date[1]) + DaysBeforeMonth(date[1], date[2]) + date[3]
Ord2Ymd(ord) ==
    LET n0   == ord - 1
        n400 == n0 \div 146097
        r400 == n0 % 146097
        n100 == r400 \div 36524
        r100 == r400 % 36524
        n4   == r100 \div 1461
        r4   == r100 % 1461
        n1   == r4 \div 365
        n    == r4 % 365
        year == n400 * 400 + 1 + n100 * 100 + n4 * 4 + n1
        leap == n1 = 3 /\ (n4 # 24 \/ n100 = 3)
        m0   == (n + 50) \div 32
        p0   == DAYS_BEFORE_MONTH[m0] + (IF m0 > 2 /\ leap THEN 1 ELSE 0)
        month == IF p0 > n THEN m0 - 1 ELSE m0
        prec  == IF p0 > n
                 THEN p0 - (DAYS_IN_MONTH[month]
                            + (IF month = 2 /\ leap THEN 1 ELSE 0))
                 ELSE p0
    IN  IF n1 = 4 \/ n100 = 4
        THEN <<year - 1, 12, 31>>
        ELSE <<year, month, n - prec + 1>>
AddDays(date, days) == Ord2Ymd(Ymd2Ord(date) + days)

\* strftime('%Y-%m-%d'): ten characters, zero padded.
Digit == <<"0", "1", "2", "3", "4", "5", "6", "7", "8", "9">>
Dig(n) == Digit[(n % 10) + 1]
Strftime(date) ==
    << Dig(date[1] \div 1000), Dig(date[1] \div 100), Dig(date[1] \div 10),
       Dig(date[1]), "-", Dig(date[2] \div 10), Dig(date[2]), "-",
       Dig(date[3] \div 10), Dig(date[3]) >>

\* ------------------------------------------------------ the DataFrame
\* A DataFrame is the sequence of its columns, in column order; a column is
\* [name, values], values indexed 1..n by row.
Column(df, name) == df[CHOOSE j \in 1..Len(df) : df[j].name = name].values
HasColumn(df, name) == \E j \in 1..Len(df) : df[j].name = name

\* df[name] = values: an existing column is replaced where it stands, a new
\* one is appended after the last.
SetColumnAtEnd(df, name, values) ==
    Append(SelectSeq(df, LAMBDA c : c.name # name), [name |-> name, values |-> values])
SetColumn(df, name, values) ==
    IF HasColumn(df, name)
    THEN [j \in 1..Len(df) |->
            IF df[j].name = name THEN [name |-> name, values |-> values] ELSE df[j]]
    ELSE Append(df, [name |-> name, values |-> values])

\* A file: whether it exists, its header line (the column names, in order)
\* and its record lines (each the cells of one row, in column order).
NoFile == [exists |-> FALSE, header |-> <<>>, rows |-> <<>>]

\* df.to_csv(filename, index=False): the header, then one line per row of
\* the index, in index order, no index column.
ToCsv(df, n) ==
    [exists |-> TRUE,
     header |-> [j \in 1..Len(df) |-> df[j].name],
     rows   |-> [i \in 1..n |-> [j \in 1..Len(df) |-> df[j].values[i]]]]

\* ------------------------------------------------- derived fields
\* df['UnitsSold'] * df['PricePerUnit'] + df['ShippingCost'], for one row
\* (numerator over Res).
TotalAmountNoShipping(units, price, shipping) == units * price
TotalAmountOf(units, price, shipping) == units * price + shipping

\* 0.5, as a numerator over 10*Res*Res.
ProfitFloor == 5 * Res * Res

\* TotalAmount * margin - deduction for one row (numerator over 10*Res*Res;
\* margin is a numerator over 10*Res, deduction one over Res).
RawProfitOf(total, margin, deduction) == total * margin - 10 * Res * deduction

\* lambda x: max(0.5, x)
ClampProfitAbs(x) == IF x < 0 THEN 0 - x ELSE x
ClampProfit(x) == IF ProfitFloor >= x THEN ProfitFloor ELSE x

\* np.arange(1, num_samples + 1)
ArangeFromZero(n) == [i \in 1..n |-> i - 1]
TransactionIds(n) == [i \in 1..n |-> i]

\* ------------------------------------------- generate_large_data
\* The k-th block of n draws after the seeding (k = 0 for the dates).
Block(s, n, k) == [i \in 1..n |-> Advance(s, k * n + i)]

\* The DataFrame the function has built when it reaches to_csv, for n >= 0.
BuildFrame(s, n) ==
    LET dates == [i \in 1..n |->
                    AddDays(start_date, RandInt(Block(s, n, 0)[i], 0, DateWindow))]
        customer_ids == [i \in 1..n |-> RandInt(Block(s, n, 1)[i], 10000, 99999)]
        data == <<
            [name |-> "TransactionID", values |-> TransactionIds(n)],
            [name |-> "Date", values |-> dates],
            [name |-> "CustomerID", values |-> customer_ids],
            [name |-> "Region",
             values |-> [i \in 1..n |-> Choice(regions, Block(s, n, 2)[i])]],
            [name |-> "ProductCategory",
             values |-> [i \in 1..n |-> Choice(product_categories, Block(s, n, 3)[i])]],
            [name |-> "UnitsSold",
             values |-> [i \in 1..n |-> RandInt(Block(s, n, 4)[i], 1, 10)]],
            [name |-> "PricePerUnit",
             values |-> [i \in 1..n |-> Uniform(Block(s, n, 5)[i], 5, 1000)]],
            [name |-> "PaymentMethod",
             values |-> [i \in 1..n |-> Choice(payment_methods, Block(s, n, 6)[i])]],
            [name |-> "ShippingCost",
             values |-> [i \in 1..n |-> Uniform(Block(s, n, 7)[i], 0, 25)]] >>
        df1 == SetColumn(data, "TotalAmount",
                 [i \in 1..n |-> TotalAmountOf(Column(data, "UnitsSold")[i],
                                               Column(data, "PricePerUnit")[i],
                                               Column(data, "ShippingCost")[i])])
        df2 == SetColumn(df1, "Profit",
                 [i \in 1..n |-> RawProfitOf(Column(df1, "TotalAmount")[i],
                                             Uniform(Block(s, n, 8)[i], 1, 4),
                                             Uniform(Block(s, n, 9)[i], 0, 5))])
        df3 == SetColumn(df2, "Profit",
                 [i \in 1..n |-> ClampProfit(Column(df2, "Profit")[i])])
    IN  SetColumn(df3, "Date", [i \in 1..n |-> Strftime(Column(df3, "Date")[i])])

\* generate_large_data(num_samples, filename) from generator state s:
\* the generator state it leaves, how it ends, and the file it writes.
\* A negative count passes range() (no date is drawn) and raises
\* ValueError at the first sized draw, before anything is written.
GenerateLargeData(s, n) ==
    IF n < 0
    THEN [rng |-> Reseed(s), result |-> "ValueError", file |-> NoFile]
    ELSE [rng |-> Advance(Reseed(s), 10 * n), result |-> "ok",
          file |-> ToCsv(BuildFrame(Reseed(s), n), n)]

\* ------------------------------------------------------------ state
VARIABLES
    name,       \* __name__: "__main__" (run as a script) or "imported"
    pc,         \* where control is
    rng,        \* the state of the global numpy generator
    fs,         \* the files, by path
    spark,      \* the Spark session: "none", "running" or "stopped"
    queries,    \* aggregation queries issued by the current analyze_big_data
    loadError,  \* the step of the load that raised, or "none"
    reportBefore, \* history: the report file as analyze_big_data found it
    log,        \* history: one entry per call of generate_large_data
    sample      \* one row computed from freely drawn values (SpecDates, SpecProfit)

prog == <<name, pc, rng, fs, spark, queries, loadError, reportBefore, log>>
vars == <<name, pc, rng, fs, spark, queries, loadError, reportBefore, log, sample>>

\* One row, computed from its drawn values as BuildFrame computes each row.
RowOf(offset, units, price, shipping, margin, deduction) ==
    [drawn |-> TRUE,
     offset |-> offset, units |-> units, price |-> price, shipping |-> shipping,
     margin |-> margin, deduction |-> deduction,
     Date |-> Strftime(AddDays(start_date, offset)),
     TotalAmount |-> TotalAmountOf(units, price, shipping),
     Profit |-> ClampProfit(RawProfitOf(TotalAmountOf(units, price, shipping),
                                        margin, deduction))]

FileNames == {DATA_FILENAME, ANALYSIS_REPORT_FILENAME}

\* The record counts a caller passes: one negative, zero, and the positive ones.
SampleCounts == (0 - 1)..MaxSamples

\* A report left by an earlier run.  (A data file left by an earlier run is
\* the case of a second call on the same path.)
StaleFile == [exists |-> TRUE, header |-> <<"stale">>, rows |-> << <<0>> >>]

\* The five insights of the analysis, in the order they are computed.
Insights == <<"Insight 1: Total Sales and Profit by Region",
              "Insight 2: Top 5 Product Categories by Sales",
              "Insight 3: Monthly Sales Trend",
              "Insight 4: Average Transaction Value by Payment Method",
              "Insight 5: Top 10 Customers by Number of Transactions">>

\* The steps of the try block, in order; each can raise.
LoadSteps == <<"read", "printSchema", "show", "count">>

Init ==
    /\ name \in {"__main__", "imported"}
    /\ pc = IF name = "__main__" THEN "main_start" ELSE "idle"
    /\ rng \in 0..(Res - 1)
    /\ fs \in [FileNames -> {NoFile, StaleFile}]
    /\ fs[DATA_FILENAME] = NoFile
    /\ spark = "none"
    /\ queries = 0
    /\ loadError = "none"
    /\ reportBefore = NoFile
    /\ log = <<>>
    /\ sample = [RowOf(0, 1, Uniform(0, 5, 1000), Uniform(0, 0, 25),
                       Uniform(0, 1, 4), Uniform(0, 0, 5)) EXCEPT !.drawn = FALSE]

\* One call generate_large_data(n, filename), from the state it finds to the
\* state it leaves.  to_csv creates the file or overwrites it.
Generate(n, filename) ==
    LET r == GenerateLargeData(rng, n)
    IN  /\ rng' = r.rng
        /\ fs' = IF r.result = "ok" THEN [fs EXCEPT ![filename] = r.file] ELSE fs
        /\ log' = Append(log, [n |-> n, filename |-> filename, result |-> r.result,
                                file |-> r.file, rngBefore |-> rng,
                                before |-> fs[filename], after |-> fs'[filename]])

\* A caller that imported the module calls generate_large_data.
CallGenerate ==
    /\ name = "imported" /\ pc = "idle"
    /\ Len(log) < MaxCalls
    /\ \E n \in SampleCounts, filename \in FileNames : Generate(n, filename)
    /\ UNCHANGED <<name, pc, spark, queries, loadError, reportBefore, sample>>

\* A caller that imported the module calls analyze_big_data().
CallAnalyze ==
    /\ name = "imported" /\ pc = "idle"
    /\ pc' = "a_init"
    /\ UNCHANGED <<name, rng, fs, spark, queries, loadError, log, reportBefore, sample>>

\* The main block, first statement: generate_large_data().
MainGenerate ==
    /\ name = "__main__" /\ pc = "main_start"
    /\ Generate(NUM_SAMPLES, DATA_FILENAME)
    /\ pc' = "a_init"
    /\ UNCHANGED <<name, spark, queries, loadError, reportBefore, sample>>

\* SparkSession.builder ... getOrCreate()
InitSpark ==
    /\ pc = "a_init"
    /\ spark' = "running"
    /\ queries' = 0
    /\ loadError' = "none"
    /\ reportBefore' = fs[ANALYSIS_REPORT_FILENAME]
    /\ pc' = "a_load"
    /\ UNCHANGED <<name, rng, fs, log, sample>>

\* The try block runs to its end: the file is read, nothing is written.
LoadOk ==
    /\ pc = "a_load"
    /\ fs[DATA_FILENAME].exists
    /\ pc' = "a_query"
    /\ UNCHANGED <<name, rng, fs, spark, queries, loadError, log, reportBefore, sample>>

\* A step of the try block raises (the read does when the file is missing);
\* the handler stops the session and exits the process.
LoadFailsKeepSession(step) ==
    /\ pc = "a_load"
    /\ step \in Range(LoadSteps)
    /\ loadError' = step
    /\ pc' = "exited"
    /\ UNCHANGED <<name, rng, fs, spark, queries, log, reportBefore, sample>>
LoadFails(step) ==
    /\ pc = "a_load"
    /\ step \in Range(LoadSteps)
    /\ loadError' = step
    /\ spark' = "stopped"
    /\ pc' = "exited"
    /\ UNCHANGED <<name, rng, fs, queries, log, reportBefore, sample>>

NumInsights == 5

\* The next groupBy/agg query and its show().
Query ==
    /\ pc = "a_query"
    /\ queries < NumInsights
    /\ queries' = queries + 1
    /\ pc' = IF queries + 1 = NumInsights THEN "a_report" ELSE "a_query"
    /\ UNCHANGED <<name, rng, fs, spark, loadError, log, reportBefore, sample>>

\* The path the report is opened at.
ReportTargetData == DATA_FILENAME
ReportTarget == ANALYSIS_REPORT_FILENAME

\* The report, complete, and the report as it stands when _repr_html_()
\* returns None (eager evaluation off) and .replace raises.
FullReport ==
    [exists |-> TRUE, header |-> <<"--- Big Data Analysis Report ---">>,
     rows |-> [i \in 1..Len(Insights) |-> <<Insights[i]>>]]
PartialReport ==
    [exists |-> TRUE, header |-> <<"--- Big Data Analysis Report ---">>,
     rows |-> << <<Insights[1]>> >>]

\* with open(report_filename, 'w'): the report is written; when a table
\* cannot be rendered the exception leaves the function with the session running.
WriteReport ==
    /\ pc = "a_report"
    /\ \E eagerEval \in BOOLEAN :
          IF eagerEval
          THEN /\ fs' = [fs EXCEPT ![ReportTarget] = FullReport]
               /\ pc' = "a_stop"
          ELSE /\ fs' = [fs EXCEPT ![ReportTarget] = PartialReport]
               /\ pc' = "crashed"
    /\ UNCHANGED <<name, rng, spark, queries, loadError, log, reportBefore, sample>>

\* spark.stop(), and the function returns.
StopSpark ==
    /\ pc = "a_stop"
    /\ spark' = "stopped"
    /\ pc' = "done"
    /\ UNCHANGED <<name, rng, fs, queries, loadError, log, reportBefore, sample>>

Next ==
    \/ CallGenerate
    \/ CallAnalyze
    \/ MainGenerate
    \/ InitSpark
    \/ LoadOk
    \/ \E step \in Range(LoadSteps) : LoadFails(step)
    \/ Query
    \/ WriteReport
    \/ StopSpark

Spec == Init /\ [][Next]_vars

\* --------------------------------------- one row, over every draw
\* The per-row computations of generate_large_data applied to every value
\* the draws can return: one row is drawn and computed.
InitSample ==
    /\ Init
    /\ name = "imported"
    /\ rng = 0
    /\ fs = [f \in FileNames |-> NoFile]

\* Line 33 for one row: any offset randint(0, 1095) can return.
DrawDate ==
    /\ ~sample.drawn
    /\ \E offset \in RandIntValues(0, DateWindow) :
          sample' = RowOf(offset, sample.units, sample.price, sample.shipping,
                          sample.margin, sample.deduction)
    /\ UNCHANGED prog

\* Lines 47-58 for one row: any units, price, shipping cost, margin and
\* deduction the draws can return.
DrawAmounts ==
    /\ ~sample.drawn
    /\ \E units \in RandIntValues(1, 10),
          price \in UniformValues(5, 1000),
          shipping \in UniformValues(0, 25),
          margin \in UniformValues(1, 4),
          deduction \in UniformValues(0, 5) :
          sample' = RowOf(sample.offset, units, price, shipping, margin, deduction)
    /\ UNCHANGED prog

NextDates == DrawDate
SpecDates == InitSample /\ [][NextDates]_vars

NextProfit == DrawAmounts
SpecProfit == InitSample /\ [][NextProfit]_vars

\* ------------------------------------------------- reading a file
\* The calls of generate_large_data so far.
Calls == {log[k] : k \in 1..Len(log)}

ExpectedColumns ==
    <<"TransactionID", "Date", "CustomerID", "Region", "ProductCategory",
      "UnitsSold", "PricePerUnit", "PaymentMethod", "ShippingCost",
      "TotalAmount", "Profit">>

\* The cell of record line i under the header's column col.
Cell(file, i, col) ==
    file.rows[i][CHOOSE j \in 1..Len(file.header) : file.header[j] = col]

\* A YYYY-MM-DD string read back as <<year, month, day>>.
DigitValue(c) == CHOOSE d \in 0..9 : Digit[d + 1] = c
ParseDate(str) ==
    << 1000 * DigitValue(str[1]) + 100 * DigitValue(str[2])
         + 10 * DigitValue(str[3]) + DigitValue(str[4]),
       10 * DigitValue(str[6]) + DigitValue(str[7]),
       10 * DigitValue(str[9]) + DigitValue(str[10]) >>

\* a is not after b, for <<year, month, day>>.
DateLeq(a, b) ==
    \/ a[1] < b[1]
    \/ a[1] = b[1] /\ a[2] < b[2]
    \/ a[1] = b[1] /\ a[2] = b[2] /\ a[3] <= b[3]

\* ---------------------------------------------------------- claims

\* C1: a call with a positive record count N returns normally and leaves at
\* its path a file of one header line and exactly N record lines, the i-th
\* of which carries TransactionID i.
C1_RowsAreOneToN ==
    \A e \in Calls :
        e.n > 0 =>
            /\ e.result = "ok"
            /\ e.after = e.file
            /\ e.file.exists
            /\ "TransactionID" \in Range(e.file.header)
            /\ Len(e.file.rows) = e.n
            /\ \A i \in 1..e.n : Cell(e.file, i, "TransactionID") = i

C1_Witness ==
    \E e \in Calls :
        /\ e.n = MaxSamples
        /\ e.before.exists
        /\ Len(e.after.rows) = MaxSamples
        /\ Cell(e.after, MaxSamples, "TransactionID") = MaxSamples

\* C2: in every file written, every record line's TotalAmount is that
\* line's UnitsSold times its PricePerUnit plus its ShippingCost.
C2_TotalAmountFromOwnRow ==
    \A e \in Calls :
        e.result = "ok" =>
            \A i \in 1..Len(e.file.rows) :
                Cell(e.file, i, "TotalAmount") =
                    Cell(e.file, i, "UnitsSold") * Cell(e.file, i, "PricePerUnit")
                        + Cell(e.file, i, "ShippingCost")

\* Two lines of one file that differ in units, price and shipping cost, the
\* shipping cost not zero.
C2_Witness ==
    \E e \in Calls :
        /\ e.result = "ok"
        /\ \E i, k \in 1..Len(e.file.rows) :
              /\ Cell(e.file, i, "ShippingCost") > 0
              /\ Cell(e.file, i, "ShippingCost") # Cell(e.file, k, "ShippingCost")
              /\ Cell(e.file, i, "UnitsSold") # Cell(e.file, k, "UnitsSold")
              /\ Cell(e.file, i, "PricePerUnit") # Cell(e.file, k, "PricePerUnit")

\* C3: for every units, price, shipping cost, margin and deduction the draws
\* can return, Profit is at least 0.5: it is 0.5 when TotalAmount * margin -
\* deduction is below 0.5 and is that value otherwise.
C3_ProfitIsClamped ==
    LET unclamped == sample.TotalAmount * sample.margin - 10 * Res * sample.deduction
    IN  /\ 2 * sample.Profit >= 10 * Res * Res
        /\ 2 * unclamped < 10 * Res * Res => 2 * sample.Profit = 10 * Res * Res
        /\ 2 * unclamped >= 10 * Res * Res => sample.Profit = unclamped

\* A row whose unclamped profit is negative, raised to 0.5.
C3_Witness ==
    /\ sample.drawn
    /\ sample.TotalAmount * sample.margin - 10 * Res * sample.deduction < 0
    /\ 2 * sample.Profit = 10 * Res * Res

\* C4: a call with a record count N <= 0 fails with an invalid-argument
\* error and writes no file.
C4_NonPositiveCountFails ==
    \A e \in Calls :
        e.n <= 0 => e.result = "ValueError" /\ e.after = e.before

\* C5: two calls with the same record count write the same file, whatever
\* the generator state and the file each call found.
C5_SameCountSameFile ==
    \A d, e \in Calls :
        d.n = e.n =>
            /\ d.result = e.result
            /\ d.file = e.file
            /\ d.result = "ok" => d.after = e.file

\* Two calls with the same positive count that found different generator
\* states and different files at their paths.
C5_Witness ==
    \E i, k \in 1..Len(log) :
        /\ i < k
        /\ log[i].n = log[k].n
        /\ log[i].n > 1
        /\ log[i].rngBefore # log[k].rngBefore
        /\ log[i].before # log[k].before
        /\ log[k].before.exists

\* C6: for every offset the draw can return, Date is a calendar date, it
\* is 2020-01-01 plus the offset, the offset is 0..1094, and the date lies
\* in [2020-01-01, 2022-12-30].
C6_DateInWindow ==
    LET d == ParseDate(sample.Date)
    IN  /\ sample.offset \in 0..1094
        /\ Len(sample.Date) = 10
        /\ d[2] \in 1..12
        /\ d[3] \in 1..DaysInMonth(d[1], d[2])
        /\ Ymd2Ord(d) = Ymd2Ord(<<2020, 1, 1>>) + sample.offset
        /\ DateLeq(<<2020, 1, 1>>, d)
        /\ DateLeq(d, <<2022, 12, 30>>)

\* The last day of the window, reached by the largest offset.
C6_Witness ==
    /\ sample.drawn
    /\ sample.offset = 1094
    /\ sample.Date = <<"2", "0", "2", "2", "-", "1", "2", "-", "3", "0">>

\* C7: in every file written, every record line's Region, ProductCategory
\* and PaymentMethod is a member of its enumeration.
C7_CategoricalsInEnumerations ==
    \A e \in Calls :
        e.result = "ok" =>
            \A i \in 1..Len(e.file.rows) :
                /\ Cell(e.file, i, "Region") \in
                     {"North", "South", "East", "West", "Central"}
                /\ Cell(e.file, i, "ProductCategory") \in
                     {"Electronics", "Clothing", "Home Goods", "Books", "Food",
                      "Software", "Services"}
                /\ Cell(e.file, i, "PaymentMethod") \in
                     {"Credit Card", "Debit Card", "PayPal", "Bank Transfer"}

\* A file whose lines carry the last member of two of the enumerations.
C7_Witness ==
    \E e \in Calls :
        /\ e.result = "ok"
        /\ \E i \in 1..Len(e.file.rows) : Cell(e.file, i, "Region") = "Central"
        /\ \E i \in 1..Len(e.file.rows) :
              Cell(e.file, i, "PaymentMethod") = "Bank Transfer"

\* C8: the header of every file written is the eleven column names in the
\* documented order, with no index column, and every record line has its
\* eleven cells in that order: the row number, a date string, a customer
\* id, a region, a category, the units, the price, a payment method, the
\* shipping cost, then TotalAmount and Profit.
C8_ColumnOrder ==
    \A e \in Calls :
        e.result = "ok" =>
            /\ e.file.header = ExpectedColumns
            /\ \A i \in 1..Len(e.file.rows) :
                  LET line == e.file.rows[i]
                  IN  /\ Len(line) = 11
                      /\ line[1] = i
                      /\ Len(line[2]) = 10 /\ line[2][5] = "-"
                      /\ line[3] \in 10000..99998
                      /\ line[4] \in Range(regions)
                      /\ line[5] \in Range(product_categories)
                      /\ line[6] \in 1..9
                      /\ line[7] \in UniformValues(5, 1000)
                      /\ line[8] \in Range(payment_methods)
                      /\ line[9] \in UniformValues(0, 25)
                      /\ line[10] = line[6] * line[7] + line[9]
                      /\ 2 * line[11] >= 10 * Res * Res

C8_Witness ==
    \E e \in Calls :
        /\ e.result = "ok"
        /\ Len(e.after.header) = 11
        /\ Len(e.after.rows) >= 2
        /\ Len(e.after.rows[2]) = 11

\* C9: in a run of the main block, from the end of generate_large_data on
\* (so before analyze_big_data starts, while it runs and after it ends) the
\* data file is the complete file that call wrote: nothing writes to it again.
C9_DataFileFixedAfterGeneration ==
    (name = "__main__" /\ pc # "main_start") =>
        /\ Len(log) = 1
        /\ log[1].result = "ok"
        /\ Len(log[1].file.rows) = NUM_SAMPLES
        /\ fs[DATA_FILENAME] = log[1].file

\* The run ended with the report written.
C9_Witness ==
    /\ name = "__main__"
    /\ pc = "done"
    /\ fs[ANALYSIS_REPORT_FILENAME] = FullReport
    /\ fs[DATA_FILENAME].exists
    /\ Len(fs[DATA_FILENAME].rows) = NUM_SAMPLES

\* C10: when the load fails, the process has exited with the session
\* stopped, no aggregation query issued, and the report file as
\* analyze_big_data found it.
C10_LoadFailureStopsSession ==
    (pc = "exited" \/ loadError # "none") =>
        /\ pc = "exited"
        /\ loadError # "none"
        /\ spark = "stopped"
        /\ queries = 0
        /\ fs[ANALYSIS_REPORT_FILENAME] = reportBefore

\* The count raised on a data file that exists, an earlier report in place.
C10_Witness ==
    /\ pc = "exited"
    /\ loadError = "count"
    /\ fs[DATA_FILENAME].exists
    /\ fs[ANALYSIS_REPORT_FILENAME].exists
====
